---- MODULE Spec2Model ----
(***************************************************************************)
(* A model of the sonic-go streaming Transformer (sonic.go, options.go)    *)
(* over the cgosonic.Stream wrapper.                                       *)
(*                                                                         *)
(* Audio data is modelled by position, not by value: the k-th sample the   *)
(* caller hands to Write is input sample k, the k-th sample the engine     *)
(* makes available is output sample k.  A stream of samples is a sequence  *)
(* of half-open spans <<lo, hi>> of such positions, adjacent spans merged, *)
(* so a gap, a repetition or a reordering shows as more than one span.     *)
(***************************************************************************)
EXTENDS Integers, Sequences, FiniteSets, TLC

\* ---------------------------------------------------------------- bounds
MaxCalls == 2          \* Write/Flush/Close calls made on one transformer
MaxChunks == 2         \* the longest Write buffer spans MaxChunks full sub-chunks and a rest
MaxLookahead == 3      \* frames the engine may hold back until it is flushed
MaxOpts == 2           \* the longest option list NewTransformer is called with

\* ------------------------------------------------------ program constants
streamBufferSize == 4096
AudioFormatPCM == 1
AudioFormatIEEEFloat == 3
MIN_SAMPLE_RATE == 1000
MAX_SAMPLE_RATE == 500000
MIN_CHANNELS == 1
MAX_CHANNELS == 32

NoErr == {}
ErrInvalid == "ErrInvalid"
ErrWrite == "ErrWrite"
ErrSonicCreateFailed == "ErrSonicCreateFailed"
ErrSonicFailed == "ErrSonicFailed"
ErrInternal == "ErrInternal"
ErrSonicCLib == "ErrSonicCLib"
\* the error value returned by the sink's own Write
SinkErr == "SinkErr"

Min(a, b) == IF a < b THEN a ELSE b

\* AudioFormat.Values
Values == {AudioFormatPCM, AudioFormatIEEEFloat}

\* AudioFormat.SampleSize
SampleSize(f) ==
  IF f = AudioFormatPCM THEN 2
  ELSE IF f = AudioFormatIEEEFloat THEN 4
  ELSE 0

\* A float32 argument that is not a number.  Numbers are integers here, so
\* NaN is a value no argument or bound of the model otherwise takes.
NaN == 0 - 1

\* a < b on cmp.Ordered values: false as soon as one side is NaN
Less(a, b) == a # NaN /\ b # NaN /\ a < b

\* clamp[T] of options.go
clamp(value, min, max) ==
  IF Less(value, min) THEN min
  ELSE IF Less(max, value) THEN max
  ELSE value

\* len of the []int16 view of a byte slice of length n
unsafeBytesAsInt16Slice(n) == n \div 2

\* len of the []float32 view of a byte slice of length n
unsafeBytesAsFloat32Slice(n) == n \div 4

\* -------------------------------------------------------- sample streams
AppendSpan(spans, lo, hi) ==
  IF hi <= lo THEN spans
  ELSE IF Len(spans) > 0 /\ spans[Len(spans)][2] = lo
       THEN [spans EXCEPT ![Len(spans)] = <<spans[Len(spans)][1], hi>>]
       ELSE Append(spans, <<lo, hi>>)

\* one call made on the engine or on the sink: op, two arguments, result
Ev(op, a, b, ok) == [op |-> op, a |-> a, b |-> b, ok |-> ok]

\* ------------------------------------------------- the engine (libsonic)
\* The native stream behind cgosonic.Stream.  native is the C handle held in
\* Stream.stream (0 is NULL); pending are input frames held back inside the
\* engine, avail are output frames ready to be read, outNext is the number of
\* output frames read so far, inSpans the input samples the engine consumed.
NoEngine ==
  [native |-> 0, created |-> 0, destroyed |-> 0, sampleRate |-> 0, numChannels |-> 0,
   lookahead |-> 0, pending |-> 0, avail |-> 0, outNext |-> 0, inSpans |-> <<>>,
   dropped |-> 0]

\* cgosonic.CreateStream: a fresh native stream for (sampleRate, numChannels)
CreateStream(e, sampleRate, numChannels, la) ==
  [e EXCEPT !.native = 1, !.created = @ + 1, !.sampleRate = sampleRate,
            !.numChannels = numChannels, !.lookahead = la]

\* DestroyStream without the nil check: the native stream is released again
DestroyStreamUnguarded(e) ==
  [e EXCEPT !.native = 0, !.destroyed = @ + 1,
            !.dropped = @ + e.pending + e.avail, !.pending = 0, !.avail = 0]

\* Stream.DestroyStream: releases the native stream unless it is already NULL
DestroyStream(e) ==
  IF e.native # 0
  THEN [e EXCEPT !.native = 0, !.destroyed = @ + 1,
                 !.dropped = @ + e.pending + e.avail, !.pending = 0, !.avail = 0]
  ELSE e

\* the engine turns buffered input into output, keeping `lookahead` frames back
EngineProcess(e) ==
  IF e.pending > e.lookahead
  THEN [e EXCEPT !.avail = @ + (e.pending - e.lookahead), !.pending = e.lookahead]
  ELSE e

\* Stream.WriteShortToStream / WriteFloatToStream, accepted: numSamples frames,
\* that is numSamples * numChannels samples starting at input sample lo
WriteToStream(e, lo, numSamples) ==
  EngineProcess([e EXCEPT !.pending = @ + numSamples,
                          !.inSpans = AppendSpan(@, lo, lo + numSamples * e.numChannels)])

\* Stream.SamplesAvailable
SamplesAvailable(e) == e.avail

\* frames returned by Stream.ReadShortFromStream / ReadFloatFromStream
ReadCount(e, maxSamples) == Min(e.avail, maxSamples)

\* the engine after that read
ReadFromStream(e, maxSamples) ==
  [e EXCEPT !.avail = @ - ReadCount(e, maxSamples), !.outNext = @ + ReadCount(e, maxSamples)]

\* Stream.FlushStream, successful: everything held back becomes available
FlushStream(e) == [e EXCEPT !.avail = @ + e.pending, !.pending = 0]

\* --------------------------------------------------------------- the sink
NoSink == [spans |-> <<>>, bytes |-> 0, writes |-> 0]

\* binary.Write(t.w, binary.LittleEndian, buf[:n]) accepted by the sink: the n
\* samples at output positions lo.. are encoded in elemSize bytes each
SinkWrite(s, lo, n, elemSize) ==
  [s EXCEPT !.spans = AppendSpan(@, lo, lo + n), !.bytes = @ + n * elemSize,
            !.writes = @ + 1]

\* ------------------------------------------------------------ Transformer
\* A *float32 or *int field of the struct: <<>> is nil, <<v>> points to v.
\* volume, speed, pitch and rate are counted in hundredths.
MIN_VOLUME == 1
MAX_VOLUME == 10000
MIN_SPEED == 5
MAX_SPEED == 2000
MIN_PITCH_SETTING == 5
MAX_PITCH_SETTING == 2000
MIN_RATE == 5
MAX_RATE == 2000

\* the struct before NewTransformer has filled it
NoTransformer ==
  [w |-> 0, sampleRate |-> 0, numChannels |-> 0, format |-> 0, volume |-> <<>>,
   speed |-> <<>>, pitch |-> <<>>, rate |-> <<>>, quality |-> <<>>,
   stream |-> 0, streamBuffer |-> 0]

\* what one call hands back: how it ended (kind), the results, and the call's
\* arguments (plen = len(p)); closed tells whether t.stream was nil on entry
Ret(op, kind, n, err, plen, closed) ==
  [op |-> op, kind |-> kind, n |-> n, err |-> err, plen |-> plen, closed |-> closed]

\* the working state of one Write or Flush call: engine, sink, the calls made
\* so far, numWrittenBytes, the error to return, and the environment's choices
\* for this call (wf: which engine write is rejected, sf: which sink write
\* fails, ff: the engine flush fails, ub: an out-of-bounds write by the engine
\* brings the process down, serr: the error a failing sink write returns,
\* rf: the reads of Flush hand back nothing although frames were announced)
Work(e, s, wf, sf, ff, ub) ==
  [eng |-> e, sink |-> s, log |-> <<>>, n |-> 0, err |-> NoErr, kind |-> "return",
   ew |-> 0, sw |-> 0, wf |-> wf, sf |-> sf, ff |-> ff, ub |-> ub, serr |-> {SinkErr},
   rf |-> FALSE]

\* the sink's error formatted with %v instead of %w: it is no longer wrapped
SinkWriteErrorUnwrapped(err) == {ErrWrite}

\* fmt.Errorf("%w: failed to write samples: %w", ErrWrite, err)
SinkWriteError(err) == {ErrWrite} \cup err

\* a rejection looked for as a negative result
EngineWriteFailedNegative(okInt) == okInt < 0

\* okInt == 0 after WriteShortToStream / WriteFloatToStream
EngineWriteFailed(okInt) == okInt = 0

\* samples counted instead of bytes
ConsumedNoScale(n, size, sampleSize) == n + size

\* numWrittenBytes += size * sampleSize
Consumed(n, size, sampleSize) == n + size * sampleSize

\* the int16 check used for both encodings
LenIsEven(plen, sampleSize) == plen % 2 = 0

\* len(p)%sampleSize != 0 is the rejected case
LenIsMultiple(plen, sampleSize) == plen % sampleSize = 0

\* the inner loop of writeInt16 / writeFloat32: read into the scratch buffer
\* (buflen samples) and write each batch to the sink until a read returns 0
RECURSIVE drainLoop(_, _, _, _)
drainLoop(tr, m, buflen, elemSize) ==
  LET maxSamples == buflen \div tr.numChannels
      nRead == ReadCount(m.eng, maxSamples)
      lo == m.eng.outNext * tr.numChannels
      m1 == [m EXCEPT !.eng = ReadFromStream(@, maxSamples),
                      !.log = Append(@, Ev("read", buflen, maxSamples, nRead))]
  IN  IF nRead <= 0 THEN m1
      ELSE IF m1.sw + 1 = m1.sf
      THEN [m1 EXCEPT !.sw = @ + 1, !.err = SinkWriteError(m1.serr),
                      !.log = Append(@, Ev("sink", lo, nRead, 0))]
      ELSE drainLoop(tr, [m1 EXCEPT !.sw = @ + 1,
                                    !.sink = SinkWrite(@, lo, nRead, elemSize),
                                    !.log = Append(@, Ev("sink", lo, nRead, 1))],
                     buflen, elemSize)

\* one sub-chunk of `size` samples starting at input sample off: push it,
\* count it, drain
pushAndDrain(tr, m, size, off, sampleSize, buflen, elemSize) ==
  IF tr.stream = 0 THEN [m EXCEPT !.kind = "panic"]
  ELSE
  LET numSamples == size \div tr.numChannels
      okInt == IF m.ew + 1 = m.wf THEN 0 ELSE 1
      m1 == [m EXCEPT !.ew = @ + 1,
                      !.eng = IF okInt = 0 THEN @ ELSE WriteToStream(@, off, numSamples),
                      !.log = Append(@, Ev("write", size, numSamples, okInt))]
  IN  IF EngineWriteFailed(okInt)
      THEN [m1 EXCEPT !.err = {ErrSonicFailed}]
      ELSE drainLoop(tr, [m1 EXCEPT !.n = Consumed(@, size, sampleSize)], buflen, elemSize)

\* the sub-chunk limit taken in bytes
StreamBufferSampleSizeInBytes(sampleSize) == streamBufferSize

\* streamBufferSampleSize := streamBufferSize / sampleSize
StreamBufferSampleSize(sampleSize) == streamBufferSize \div sampleSize

\* the outer loop of writeInt16 / writeFloat32 over the remaining samples
RECURSIVE writeLoop(_, _, _, _, _, _, _)
writeLoop(tr, m, rem, off, sampleSize, buflen, elemSize) ==
  LET streamBufferSampleSize == StreamBufferSampleSize(sampleSize)
      size == Min(rem, streamBufferSampleSize)
  IN  IF size <= 0 THEN m
      ELSE LET m1 == pushAndDrain(tr, m, size, off, sampleSize, buflen, elemSize)
           IN  IF m1.err # NoErr \/ m1.kind # "return" THEN m1
               ELSE writeLoop(tr, m1, rem - size, off + size, sampleSize, buflen, elemSize)

\* no empty check and the loop condition tested after the first sub-chunk
writeSamplesDoWhile(tr, m, samples, off, sampleSize, buflen, elemSize) ==
  LET size == Min(samples, streamBufferSize \div sampleSize)
      m1 == pushAndDrain(tr, m, size, off, sampleSize, buflen, elemSize)
  IN  IF m1.err # NoErr \/ m1.kind # "return" THEN m1
      ELSE writeLoop(tr, m1, samples - size, off + size, sampleSize, buflen, elemSize)

\* writeInt16 / writeFloat32 from the empty check on: nothing to do for an
\* empty view, otherwise the loop over the sub-chunks
writeSamples(tr, m, samples, off, sampleSize, buflen, elemSize) ==
  IF samples = 0 THEN m
  ELSE writeLoop(tr, m, samples, off, sampleSize, buflen, elemSize)

\* Transformer.writeInt16 on a buffer of plen bytes
writeInt16(tr, m, plen, off) ==
  LET sampleSize == SampleSize(tr.format)
  IN  IF ~LenIsMultiple(plen, sampleSize)
      THEN [m EXCEPT !.err = {ErrInvalid}]
      ELSE writeSamples(tr, m, unsafeBytesAsInt16Slice(plen), off, sampleSize,
                        unsafeBytesAsInt16Slice(tr.streamBuffer), 2)

\* Transformer.writeFloat32 on a buffer of plen bytes
writeFloat32(tr, m, plen, off) ==
  LET sampleSize == SampleSize(tr.format)
  IN  IF ~LenIsMultiple(plen, sampleSize)
      THEN [m EXCEPT !.err = {ErrInvalid}]
      ELSE writeSamples(tr, m, unsafeBytesAsFloat32Slice(plen), off, sampleSize,
                        unsafeBytesAsFloat32Slice(tr.streamBuffer), 4)

\* Transformer.Write
WriteT(tr, m, plen, off) ==
  IF tr.format = AudioFormatPCM THEN writeInt16(tr, m, plen, off)
  ELSE IF tr.format = AudioFormatIEEEFloat THEN writeFloat32(tr, m, plen, off)
  ELSE [m EXCEPT !.err = {ErrInternal}]

\* the drain loop entered also when nothing is available
FlushMoreOrNone(avail) == avail >= 0

\* the drain loop left when one frame remains
FlushMoreThanOne(avail) == avail > 1

\* for t.stream.SamplesAvailable() > 0
FlushMore(avail) == avail > 0

\* only a negative result of FlushStream taken as a failure
FlushFailedNegative(ret) == ret < 0

\* ret == 0 after FlushStream
FlushFailed(ret) == ret = 0

\* n <= 0 after ReadShortFromStream / ReadFloatFromStream in the flush loop
FlushReadFailed(n) == n <= 0

\* the loop of flushInt16 / flushFloat32: a buffer of SamplesAvailable()
\* samples is allocated and the engine is asked for that many frames, so it
\* stores numChannels times as many samples as the buffer holds
RECURSIVE flushLoop(_, _, _)
flushLoop(tr, m, elemSize) ==
  LET avail == SamplesAvailable(m.eng)
      n == IF m.rf THEN 0 ELSE ReadCount(m.eng, avail)
      lo == m.eng.outNext * tr.numChannels
      m1 == [m EXCEPT !.eng = IF m.rf THEN @ ELSE ReadFromStream(@, avail),
                      !.log = Append(@, Ev("read", avail, avail, n))]
  IN  IF ~FlushMore(avail) THEN m
      ELSE IF n * tr.numChannels > avail /\ m.ub
      THEN [m1 EXCEPT !.kind = "crash"]
      ELSE IF FlushReadFailed(n)
      THEN [m1 EXCEPT !.err = {ErrSonicFailed}]
      ELSE IF m1.sw + 1 = m1.sf
      THEN [m1 EXCEPT !.sw = @ + 1, !.err = SinkWriteError(m1.serr),
                      !.log = Append(@, Ev("sink", lo, n, 0))]
      ELSE flushLoop(tr, [m1 EXCEPT !.sw = @ + 1,
                                    !.sink = SinkWrite(@, lo, n, elemSize),
                                    !.log = Append(@, Ev("sink", lo, n, 1))],
                     elemSize)

\* flushInt16 / flushFloat32
flushSamples(tr, m, elemSize) ==
  IF tr.stream = 0 THEN [m EXCEPT !.kind = "panic"]
  ELSE
  LET ret == IF m.ff THEN 0 ELSE 1
      m1 == [m EXCEPT !.log = Append(@, Ev("flush", 0, 0, ret))]
  IN  IF FlushFailed(ret)
      THEN [m1 EXCEPT !.err = {ErrSonicFailed}]
      ELSE flushLoop(tr, [m1 EXCEPT !.eng = FlushStream(@)], elemSize)

\* Transformer.flushInt16
flushInt16(tr, m) == flushSamples(tr, m, 2)

\* Transformer.flushFloat32
flushFloat32(tr, m) == flushSamples(tr, m, 4)

\* Transformer.Flush
FlushT(tr, m) ==
  IF tr.format = AudioFormatPCM THEN flushInt16(tr, m)
  ELSE IF tr.format = AudioFormatIEEEFloat THEN flushFloat32(tr, m)
  ELSE [m EXCEPT !.err = {ErrInternal}]

\* Close without the nil check on t.stream
CloseUnguarded(tr, e) ==
  IF tr.stream = 0
  THEN [t |-> tr, eng |-> e, kind |-> "panic", log |-> <<>>]
  ELSE [t |-> [tr EXCEPT !.stream = 0, !.streamBuffer = 0], eng |-> DestroyStream(e),
        kind |-> "return", log |-> <<Ev("destroy", 0, 0, e.native)>>]

\* Close that forgets the stream without destroying it
CloseLeaksEngine(tr, e) ==
  [t |-> [tr EXCEPT !.stream = 0, !.streamBuffer = 0], eng |-> e, kind |-> "return",
   log |-> <<>>]

\* Close that destroys the stream but keeps the pointer to it
CloseKeepsStream(tr, e) ==
  [t |-> [tr EXCEPT !.streamBuffer = 0],
   eng |-> IF tr.stream # 0 THEN DestroyStream(e) ELSE e,
   kind |-> "return",
   log |-> IF tr.stream # 0 THEN <<Ev("destroy", 0, 0, e.native)>> ELSE <<>>]

\* Close that flushes the engine before it destroys the stream
CloseFlushes(tr, e) ==
  [t |-> [tr EXCEPT !.stream = 0, !.streamBuffer = 0],
   eng |-> IF tr.stream # 0 THEN DestroyStream(FlushStream(e)) ELSE e,
   kind |-> "return",
   log |-> IF tr.stream # 0
           THEN <<Ev("flush", 0, 0, 1), Ev("destroy", 0, 0, e.native)>> ELSE <<>>]

\* Transformer.Close: the struct and the engine afterwards
CloseT(tr, e) ==
  [t |-> [tr EXCEPT !.stream = 0, !.streamBuffer = 0],
   eng |-> IF tr.stream # 0 THEN DestroyStream(e) ELSE e,
   kind |-> "return",
   log |-> IF tr.stream # 0 THEN <<Ev("destroy", 0, 0, e.native)>> ELSE <<>>]

\* ---------------------------------------------------------------- options
\* An Option is a record [kind, v]; kind "Custom" is a caller-written option
\* that changes nothing and reports the error ErrOption when v = 1 and the
\* error ErrOption2 when v = 2.
ErrOption == "ErrOption"
ErrOption2 == "ErrOption2"
Opt(kind, v) == [kind |-> kind, v |-> v]

\* the channel count stored as the caller gave it
ChannelsUnclamped(numChannels) == numChannels

\* clamp(numChannels, cgosonic.MIN_CHANNELS, cgosonic.MAX_CHANNELS)
ChannelsClamped(numChannels) == clamp(numChannels, MIN_CHANNELS, MAX_CHANNELS)

\* the Transformer after the option has run
OptionApply(tr, o) ==
  IF o.kind = "WithChannels"
  THEN [tr EXCEPT !.numChannels = ChannelsClamped(o.v)]
  ELSE IF o.kind = "WithVolume"
  THEN [tr EXCEPT !.volume = <<clamp(o.v, MIN_VOLUME, MAX_VOLUME)>>]
  ELSE IF o.kind = "WithSpeed"
  THEN [tr EXCEPT !.speed = <<clamp(o.v, MIN_SPEED, MAX_SPEED)>>]
  ELSE IF o.kind = "WithPitch"
  THEN [tr EXCEPT !.pitch = <<clamp(o.v, MIN_PITCH_SETTING, MAX_PITCH_SETTING)>>]
  ELSE IF o.kind = "WithRate"
  THEN [tr EXCEPT !.rate = <<clamp(o.v, MIN_RATE, MAX_RATE)>>]
  ELSE IF o.kind = "WithQuality"
  THEN [tr EXCEPT !.quality = <<1>>]
  ELSE tr

\* the error the option returns
OptionErr(o) ==
  IF o.kind = "Custom" /\ o.v = 1 THEN {ErrOption}
  ELSE IF o.kind = "Custom" /\ o.v = 2 THEN {ErrOption2}
  ELSE NoErr

\* the option's error wrapped in ErrInvalid
OptionFailureAsInvalid(err) == err \cup {ErrInvalid}

\* return nil, err: the option's error goes back as it is
OptionFailure(err) == err

\* the option loop going on after an error and reporting the first one
RECURSIVE applyOptionsAll(_, _, _)
applyOptionsAll(tr, opts, i) ==
  IF i > Len(opts) THEN [t |-> tr, err |-> NoErr, applied |-> Len(opts), log |-> <<>>]
  ELSE LET r == applyOptionsAll(OptionApply(tr, opts[i]), opts, i + 1)
           e == OptionErr(opts[i])
       IN  [r EXCEPT !.log = <<Ev("option", i, 0, IF e = NoErr THEN 1 ELSE 0)>> \o @,
                     !.err = IF e # NoErr THEN OptionFailure(e) ELSE @]

\* for _, opt := range opts: stops at the first option that reports an error;
\* log holds one "option" event for every option that was run
RECURSIVE applyOptions(_, _, _)
applyOptions(tr, opts, i) ==
  IF i > Len(opts) THEN [t |-> tr, err |-> NoErr, applied |-> Len(opts), log |-> <<>>]
  ELSE IF OptionErr(opts[i]) # NoErr
  THEN [t |-> OptionApply(tr, opts[i]), err |-> OptionFailure(OptionErr(opts[i])),
        applied |-> i, log |-> <<Ev("option", i, 0, 0)>>]
  ELSE LET r == applyOptions(OptionApply(tr, opts[i]), opts, i + 1)
       IN  [r EXCEPT !.log = <<Ev("option", i, 0, 1)>> \o @]

\* the configure calls with the speed set before the volume
ConfigureCallsSpeedFirst(tr) ==
  (IF tr.speed # <<>> THEN <<Ev("SetSpeed", tr.speed[1], 0, 1)>> ELSE <<>>) \o
  (IF tr.volume # <<>> THEN <<Ev("SetVolume", tr.volume[1], 0, 1)>> ELSE <<>>) \o
  (IF tr.pitch # <<>> THEN <<Ev("SetPitch", tr.pitch[1], 0, 1)>> ELSE <<>>) \o
  (IF tr.rate # <<>> THEN <<Ev("SetRate", tr.rate[1], 0, 1)>> ELSE <<>>) \o
  (IF tr.quality # <<>> THEN <<Ev("SetQuality", tr.quality[1], 0, 1)>> ELSE <<>>)

\* the configure calls NewTransformer makes on the new stream
ConfigureCalls(tr) ==
  (IF tr.volume # <<>> THEN <<Ev("SetVolume", tr.volume[1], 0, 1)>> ELSE <<>>) \o
  (IF tr.speed # <<>> THEN <<Ev("SetSpeed", tr.speed[1], 0, 1)>> ELSE <<>>) \o
  (IF tr.pitch # <<>> THEN <<Ev("SetPitch", tr.pitch[1], 0, 1)>> ELSE <<>>) \o
  (IF tr.rate # <<>> THEN <<Ev("SetRate", tr.rate[1], 0, 1)>> ELSE <<>>) \o
  (IF tr.quality # <<>> THEN <<Ev("SetQuality", tr.quality[1], 0, 1)>> ELSE <<>>)

\* the range check with the bounds themselves rejected
SampleRateOutOfRangeStrict(sampleRate) ==
  sampleRate <= MIN_SAMPLE_RATE \/ MAX_SAMPLE_RATE <= sampleRate

\* sampleRate < cgosonic.MIN_SAMPLE_RATE || cgosonic.MAX_SAMPLE_RATE < sampleRate
SampleRateOutOfRange(sampleRate) ==
  sampleRate < MIN_SAMPLE_RATE \/ MAX_SAMPLE_RATE < sampleRate

\* no encoding turned away
FormatUnsupportedNever(format) == FALSE

\* !slices.Contains(format.Values(), format)
FormatUnsupported(format) == format \notin Values

\* the engine created with the default channel count
EngineChannelsDefault(tr) == 1

\* the channel count in cgosonic.CreateStream(t.sampleRate, t.numChannels)
EngineChannels(tr) == tr.numChannels

\* NewTransformer with the engine created before the options run
NewTransformerCreateFirst(w, sampleRate, format, opts, createOk, la) ==
  LET fail(e, lg) == [ok |-> FALSE, t |-> NoTransformer, eng |-> NoEngine, err |-> e, log |-> lg]
      t0 == [NoTransformer EXCEPT !.w = w, !.sampleRate = sampleRate,
                                  !.numChannels = 1, !.format = format]
      created == CreateStream(NoEngine, sampleRate, 1, la)
      r == applyOptions(t0, opts, 1)
      t1 == [r.t EXCEPT !.stream = 1, !.streamBuffer = streamBufferSize]
  IN  IF w = 0 THEN fail({ErrInvalid}, <<>>)
      ELSE IF SampleRateOutOfRange(sampleRate) THEN fail({ErrInvalid}, <<>>)
      ELSE IF format \notin Values THEN fail({ErrInvalid}, <<>>)
      ELSE IF ~createOk THEN fail({ErrSonicCreateFailed}, <<Ev("create", sampleRate, 1, 0)>>)
      ELSE IF r.err # NoErr
      THEN [ok |-> FALSE, t |-> NoTransformer, eng |-> created, err |-> r.err,
            log |-> <<Ev("create", sampleRate, 1, 1)>> \o r.log]
      ELSE [ok |-> TRUE, t |-> t1, eng |-> created, err |-> NoErr,
            log |-> <<Ev("create", sampleRate, 1, 1)>> \o r.log \o ConfigureCalls(t1)]

\* NewTransformer(w, sampleRate, format, opts...); createOk tells whether the
\* engine can be created, la is the look-ahead of the engine it creates.
\* ok = FALSE stands for the (nil, err) result.
NewTransformer(w, sampleRate, format, opts, createOk, la) ==
  LET fail(e, lg) == [ok |-> FALSE, t |-> NoTransformer, eng |-> NoEngine, err |-> e, log |-> lg]
      t0 == [NoTransformer EXCEPT !.w = w, !.sampleRate = sampleRate,
                                  !.numChannels = 1, !.format = format]
      r == applyOptions(t0, opts, 1)
      created == CreateStream(NoEngine, r.t.sampleRate, EngineChannels(r.t), la)
      t1 == [r.t EXCEPT !.stream = 1, !.streamBuffer = streamBufferSize]
  IN  IF w = 0 THEN fail({ErrInvalid}, <<>>)
      ELSE IF SampleRateOutOfRange(sampleRate) THEN fail({ErrInvalid}, <<>>)
      ELSE IF FormatUnsupported(format) THEN fail({ErrInvalid}, <<>>)
      ELSE IF r.err # NoErr THEN fail(r.err, r.log)
      ELSE IF ~createOk
      THEN fail({ErrSonicCreateFailed},
                r.log \o <<Ev("create", r.t.sampleRate, EngineChannels(r.t), 0)>>)
      ELSE [ok |-> TRUE, t |-> t1, eng |-> created, err |-> NoErr,
            log |-> r.log \o <<Ev("create", r.t.sampleRate, EngineChannels(r.t), 1)>>
                    \o ConfigureCalls(t1)]

\* NewTransformer of the later revision of sonic.go: the same checks and the
\* same order of steps; a failed CreateStream is reported as ErrSonicCLib, the
\* scratch buffer holds streamBufferSize samples, and a format that is neither
\* int16 nor float32 after the engine was created is reported as ErrInternal.
NewTransformerV2(w, sampleRate, format, opts, createOk, la) ==
  LET fail(e, lg) == [ok |-> FALSE, t |-> NoTransformer, eng |-> NoEngine, err |-> e, log |-> lg]
      t0 == [NoTransformer EXCEPT !.w = w, !.sampleRate = sampleRate,
                                  !.numChannels = 1, !.format = format]
      r == applyOptions(t0, opts, 1)
      created == CreateStream(NoEngine, r.t.sampleRate, r.t.numChannels, la)
      createEv(ok) == Ev("create", r.t.sampleRate, r.t.numChannels, ok)
      t1 == [r.t EXCEPT !.stream = 1, !.streamBuffer = streamBufferSize * SampleSize(r.t.format)]
  IN  IF w = 0 THEN fail({ErrInvalid}, <<>>)
      ELSE IF SampleRateOutOfRange(sampleRate) THEN fail({ErrInvalid}, <<>>)
      ELSE IF format \notin Values THEN fail({ErrInvalid}, <<>>)
      ELSE IF r.err # NoErr THEN fail(r.err, r.log)
      ELSE IF ~createOk THEN fail({ErrSonicCLib}, r.log \o <<createEv(0)>>)
      ELSE IF r.t.format \notin Values
      THEN [ok |-> FALSE, t |-> NoTransformer, eng |-> created, err |-> {ErrInternal},
            log |-> r.log \o <<createEv(1)>>]
      ELSE [ok |-> TRUE, t |-> t1, eng |-> created, err |-> NoErr,
            log |-> r.log \o <<createEv(1)>> \o ConfigureCalls(t1)]

\* ------------------------------------------------------------------ state
VARIABLES
  pc,      \* "start", "failed" (NewTransformer returned an error), "ready",
           \* "crashed" (the process died), "collected" (the finalizer has run)
  t,       \* the Transformer struct
  eng,     \* the native engine behind t.stream
  sink,    \* what the io.Writer has received
  ret,     \* the outcome of the last call
  log,     \* the engine and sink calls the last call made, in order
  inPos,   \* input samples the caller has got rid of so far (it goes on with p[n:])
  calls,   \* Write/Flush/Close calls made so far
  clean,   \* no call has failed so far
  call,    \* the arguments NewTransformer was called with
  loop     \* the Write or Flush call that is under way, when its loops are
           \* followed step by step

vars == <<pc, t, eng, sink, ret, log, inPos, calls, clean, call, loop>>

\* no call under way
NoLoop ==
  [op |-> "none", at |-> "idle", m |-> Work(NoEngine, NoSink, 0, 0, FALSE, FALSE),
   rem |-> 0, size |-> 0, off |-> 0, plen |-> 0]

\* no call of NewTransformer yet
NoCall ==
  [w |-> 0, sampleRate |-> 0, format |-> 0, opts |-> <<>>, createOk |-> FALSE, revision |-> 0]

\* the inputs the environment chooses from
SampleRates == {MIN_SAMPLE_RATE - 1, 44100, MAX_SAMPLE_RATE + 1}
Formats == {AudioFormatPCM, 2, AudioFormatIEEEFloat}
OptLists == {<<>>} \cup {<<Opt("WithChannels", c)>> : c \in {0, 2, 3, MAX_CHANNELS + 1}}
InputLens ==
  {0, 2, 3, 4, 6} \cup {k * streamBufferSize + d : k \in 1..MaxChunks, d \in {0, 4}}

Init ==
  /\ pc = "start"
  /\ t = NoTransformer
  /\ eng = NoEngine
  /\ sink = NoSink
  /\ ret = Ret("none", "return", 0, NoErr, 0, FALSE)
  /\ log = <<>>
  /\ inPos = 0
  /\ calls = 0
  /\ clean = TRUE
  /\ call = NoCall
  /\ loop = NoLoop

\* one call of NewTransformer with arguments from the given sets
ConstructWith(rates, optLists, lookaheads, revisions) ==
  /\ pc = "start"
  /\ \E w \in {0, 1}, sampleRate \in rates, format \in Formats, opts \in optLists,
        createOk \in BOOLEAN, la \in lookaheads, revision \in revisions :
       LET r == IF revision = 1
                THEN NewTransformer(w, sampleRate, format, opts, createOk, la)
                ELSE NewTransformerV2(w, sampleRate, format, opts, createOk, la)
       IN  /\ pc' = IF r.ok THEN "ready" ELSE "failed"
           /\ t' = r.t
           /\ eng' = r.eng
           /\ log' = r.log
           /\ ret' = Ret("NewTransformer", "return", 0, r.err, 0, FALSE)
           /\ call' = [w |-> w, sampleRate |-> sampleRate, format |-> format, opts |-> opts,
                       createOk |-> createOk, revision |-> revision]
  /\ UNCHANGED <<sink, inPos, calls, clean, loop>>

Construct == ConstructWith(SampleRates, OptLists, {0, MaxLookahead}, {1})

\* one Write call on a transformer whose sink fails with one of sinkErrors
WriteWith(sinkErrors) ==
  /\ pc = "ready"
  /\ calls < MaxCalls
  /\ \E plen \in InputLens, serr \in sinkErrors :
     \* a buffer of plen bytes makes at most 1 + plen \div streamBufferSize
     \* engine writes, so a later one cannot be the rejected one
     \E wf \in 0..Min(MaxChunks + 1, 1 + plen \div streamBufferSize), sf \in 0..2 :
       LET m == WriteT(t, [Work(eng, sink, wf, sf, FALSE, FALSE) EXCEPT !.serr = serr],
                       plen, inPos)
       IN  /\ eng' = m.eng
           /\ sink' = m.sink
           /\ log' = m.log
           /\ ret' = Ret("Write", m.kind, m.n, m.err, plen, t.stream = 0)
           /\ inPos' = inPos + (m.n \div SampleSize(t.format))
           /\ clean' = (clean /\ m.kind = "return" /\ m.err = NoErr)
  /\ calls' = calls + 1
  /\ UNCHANGED <<pc, t, call, loop>>

Write == WriteWith({{SinkErr}})

\* one Flush call on a transformer whose sink fails with one of sinkErrors
FlushWith(sinkErrors) ==
  /\ pc = "ready"
  /\ calls < MaxCalls
  /\ \E sf \in 0..2, ff \in BOOLEAN, ub \in BOOLEAN, serr \in sinkErrors :
       LET m == FlushT(t, [Work(eng, sink, 0, sf, ff, ub) EXCEPT !.serr = serr])
       IN  /\ pc' = IF m.kind = "crash" THEN "crashed" ELSE pc
           /\ eng' = m.eng
           /\ sink' = m.sink
           /\ log' = m.log
           /\ ret' = Ret("Flush", m.kind, 0, m.err, 0, t.stream = 0)
           /\ clean' = (clean /\ m.kind = "return" /\ m.err = NoErr)
  /\ calls' = calls + 1
  /\ UNCHANGED <<t, inPos, call, loop>>

Flush == FlushWith({{SinkErr}})

Close ==
  /\ pc = "ready"
  /\ calls < MaxCalls
  /\ LET r == CloseT(t, eng)
     IN  /\ t' = r.t
         /\ eng' = r.eng
         /\ log' = r.log
         /\ ret' = Ret("Close", r.kind, 0, NoErr, 0, t.stream = 0)
  /\ calls' = calls + 1
  /\ UNCHANGED <<pc, sink, inPos, clean, call, loop>>

\* the finalizer set by NewTransformer runs t.Close() once t is unreachable
Finalize ==
  /\ pc = "ready"
  /\ LET r == CloseT(t, eng)
     IN  /\ t' = r.t
         /\ eng' = r.eng
         /\ log' = r.log
         /\ ret' = Ret("Finalize", r.kind, 0, NoErr, 0, t.stream = 0)
  /\ pc' = "collected"
  /\ UNCHANGED <<sink, inPos, calls, clean, call, loop>>

Next == Construct \/ Write \/ Flush \/ Close \/ Finalize

Spec == Init /\ [][Next]_vars

\* ---------------------------------------------------------- construction
\* A second specification for the claims about NewTransformer and its
\* options: every argument at, below and above its bounds, option lists of up
\* to MaxOpts options, both revisions of NewTransformer.
NewSampleRates == {MIN_SAMPLE_RATE - 1, MIN_SAMPLE_RATE, MAX_SAMPLE_RATE, MAX_SAMPLE_RATE + 1}

Options ==
  {Opt("WithChannels", c) : c \in {0, 2, MAX_CHANNELS + 1}}
  \cup {Opt("WithVolume", v) : v \in {MIN_VOLUME - 1, 150, MAX_VOLUME + 1}}
  \cup {Opt("WithSpeed", v) : v \in {MIN_SPEED - 1, 150, MAX_SPEED + 1, NaN}}
  \cup {Opt("WithPitch", v) : v \in {MIN_PITCH_SETTING - 1, 120, MAX_PITCH_SETTING + 1}}
  \cup {Opt("WithRate", v) : v \in {MIN_RATE - 1, 80, MAX_RATE + 1}}
  \cup {Opt("WithQuality", 1)}
  \cup {Opt("Custom", v) : v \in {0, 1, 2}}

NewOptLists == UNION {[1..n -> Options] : n \in 0..MaxOpts}

ConstructNew == ConstructWith(NewSampleRates, NewOptLists, {0}, {1, 2})

NextNew == ConstructNew \/ Close \/ Finalize

SpecNew == Init /\ [][NextNew]_vars

\* ------------------------------------------------- a transformer as sink
\* A third specification in which the io.Writer behind the transformer is
\* itself a Transformer: a failing sink write returns what Transformer.Write
\* returns for some batch of samples.
SinkTransformers ==
  {NewTransformer(1, 44100, format, <<>>, TRUE, 0) : format \in Values}

\* the errors Transformer.Write can return to binary.Write
TransformerWriteErrors ==
  {WriteT(r.t, Work(r.eng, NoSink, wf, sf, FALSE, FALSE), plen, 0).err :
     r \in SinkTransformers, wf \in 0..1, sf \in 0..1, plen \in {2, 4}} \ {NoErr}

ConstructChain == ConstructWith({44100}, {<<>>}, {0, MaxLookahead}, {1})

WriteChain == WriteWith(TransformerWriteErrors)

FlushChain == FlushWith(TransformerWriteErrors)

NextChain == ConstructChain \/ WriteChain \/ FlushChain

SpecChain == Init /\ [][NextChain]_vars

\* ------------------------------------------------ the loops step by step
\* A fourth specification that follows Write and Flush through their loops,
\* one iteration in each step. loop holds the call under way: op is the
\* method, at the place in it ("outer": before a sub-chunk is pushed,
\* "drain": in the inner read loop, "flush": in the loop of Flush, "done":
\* the method has returned), m the working state, rem the samples not yet
\* pushed, size the sub-chunk pushed last, off the position of the next
\* sample in the input and plen = len(p).
Loop(op, at, m, rem, off, plen) ==
  [op |-> op, at |-> at, m |-> m, rem |-> rem, size |-> 0, off |-> off, plen |-> plen]

\* writeInt16 / writeFloat32 up to the outer loop
writeEnter(tr, m, plen, off) ==
  LET sampleSize == SampleSize(tr.format)
      samples == IF tr.format = AudioFormatPCM THEN unsafeBytesAsInt16Slice(plen)
                 ELSE unsafeBytesAsFloat32Slice(plen)
  IN  IF ~LenIsMultiple(plen, sampleSize)
      THEN Loop("Write", "done", [m EXCEPT !.err = {ErrInvalid}], 0, off, plen)
      ELSE IF samples = 0 THEN Loop("Write", "done", m, 0, off, plen)
      ELSE Loop("Write", "outer", m, samples, off, plen)

\* the rest of the input left as it is once the sub-chunk is drained
RestKept(rem, size) == rem

\* samples = samples[size:]
Rest(rem, size) == rem - size

\* one pass through the head of the outer loop: the loop condition, the
\* sub-chunk handed to the engine and numWrittenBytes
writeOuterStep(tr, l) ==
  LET sampleSize == SampleSize(tr.format)
      size == Min(l.rem, StreamBufferSampleSize(sampleSize))
      numSamples == size \div tr.numChannels
      m == l.m
      okInt == IF m.ew + 1 = m.wf THEN 0 ELSE 1
      m1 == [m EXCEPT !.ew = @ + 1,
                      !.eng = IF okInt = 0 THEN @ ELSE WriteToStream(@, l.off, numSamples),
                      !.log = Append(@, Ev("write", size, numSamples, okInt))]
  IN  IF size <= 0 THEN [l EXCEPT !.at = "done"]
      ELSE IF tr.stream = 0 THEN [l EXCEPT !.at = "done", !.m = [m EXCEPT !.kind = "panic"]]
      ELSE IF EngineWriteFailed(okInt)
      THEN [l EXCEPT !.at = "done", !.m = [m1 EXCEPT !.err = {ErrSonicFailed}]]
      ELSE [l EXCEPT !.at = "drain", !.size = size,
                     !.m = [m1 EXCEPT !.n = Consumed(@, size, sampleSize)]]

\* one pass through the inner loop: a read into the scratch buffer, then the
\* end of the loop when nothing was read, or the batch written to the sink
writeDrainStep(tr, l) ==
  LET elemSize == SampleSize(tr.format)
      buflen == IF tr.format = AudioFormatPCM THEN unsafeBytesAsInt16Slice(tr.streamBuffer)
                ELSE unsafeBytesAsFloat32Slice(tr.streamBuffer)
      maxSamples == buflen \div tr.numChannels
      m == l.m
      nRead == ReadCount(m.eng, maxSamples)
      lo == m.eng.outNext * tr.numChannels
      m1 == [m EXCEPT !.eng = ReadFromStream(@, maxSamples),
                      !.log = Append(@, Ev("read", buflen, maxSamples, nRead))]
  IN  IF nRead <= 0
      THEN [l EXCEPT !.at = "outer", !.m = m1, !.rem = Rest(@, l.size),
                     !.off = @ + l.size, !.size = 0]
      ELSE IF m1.sw + 1 = m1.sf
      THEN [l EXCEPT !.at = "done",
                     !.m = [m1 EXCEPT !.sw = @ + 1, !.err = SinkWriteError(m1.serr),
                                      !.log = Append(@, Ev("sink", lo, nRead, 0))]]
      ELSE [l EXCEPT !.m = [m1 EXCEPT !.sw = @ + 1,
                                      !.sink = SinkWrite(@, lo, nRead, elemSize),
                                      !.log = Append(@, Ev("sink", lo, nRead, 1))]]

\* flushInt16 / flushFloat32 up to the loop
flushEnter(tr, m) ==
  LET flushed == IF m.ff THEN 0 ELSE 1
      m1 == [m EXCEPT !.log = Append(@, Ev("flush", 0, 0, flushed))]
  IN  IF tr.stream = 0 THEN Loop("Flush", "done", [m EXCEPT !.kind = "panic"], 0, 0, 0)
      ELSE IF FlushFailed(flushed)
      THEN Loop("Flush", "done", [m1 EXCEPT !.err = {ErrSonicFailed}], 0, 0, 0)
      ELSE Loop("Flush", "flush", [m1 EXCEPT !.eng = FlushStream(@)], 0, 0, 0)

\* one pass through the loop of flushInt16 / flushFloat32
flushStep(tr, l) ==
  LET elemSize == SampleSize(tr.format)
      m == l.m
      avail == SamplesAvailable(m.eng)
      n == IF m.rf THEN 0 ELSE ReadCount(m.eng, avail)
      lo == m.eng.outNext * tr.numChannels
      m1 == [m EXCEPT !.eng = IF m.rf THEN @ ELSE ReadFromStream(@, avail),
                      !.log = Append(@, Ev("read", avail, avail, n))]
  IN  IF ~FlushMore(avail) THEN [l EXCEPT !.at = "done"]
      ELSE IF n * tr.numChannels > avail /\ m.ub
      THEN [l EXCEPT !.at = "done", !.m = [m1 EXCEPT !.kind = "crash"]]
      ELSE IF FlushReadFailed(n)
      THEN [l EXCEPT !.at = "done", !.m = [m1 EXCEPT !.err = {ErrSonicFailed}]]
      ELSE IF m1.sw + 1 = m1.sf
      THEN [l EXCEPT !.at = "done",
                     !.m = [m1 EXCEPT !.sw = @ + 1, !.err = SinkWriteError(m1.serr),
                                      !.log = Append(@, Ev("sink", lo, n, 0))]]
      ELSE [l EXCEPT !.m = [m1 EXCEPT !.sw = @ + 1,
                                      !.sink = SinkWrite(@, lo, n, elemSize),
                                      !.log = Append(@, Ev("sink", lo, n, 1))]]

\* the step leaves the call at l: the call goes on, or it returns and its
\* results become visible
Proceed(l) ==
  IF l.at # "done"
  THEN /\ loop' = l
       /\ UNCHANGED <<pc, t, eng, sink, ret, log, inPos, calls, clean, call>>
  ELSE /\ loop' = NoLoop
       /\ pc' = IF l.m.kind = "crash" THEN "crashed" ELSE pc
       /\ eng' = l.m.eng
       /\ sink' = l.m.sink
       /\ log' = l.m.log
       /\ ret' = Ret(l.op, l.m.kind, l.m.n, l.m.err, l.plen, t.stream = 0)
       /\ inPos' = inPos + (IF l.op = "Write" THEN l.m.n \div SampleSize(t.format) ELSE 0)
       /\ clean' = (clean /\ l.m.kind = "return" /\ l.m.err = NoErr)
       /\ calls' = calls + 1
       /\ UNCHANGED <<t, call>>

LoopInputLens == {0, 3, 4} \cup {k * streamBufferSize + 4 : k \in 1..MaxChunks}

LoopOptLists == {<<>>, <<Opt("WithChannels", 3)>>}

ConstructLoop == ConstructWith({44100}, LoopOptLists, {MaxLookahead}, {1})

\* Write is called
WriteEnter ==
  /\ pc = "ready"
  /\ loop.op = "none"
  /\ calls < MaxCalls
  /\ \E plen \in LoopInputLens :
     \E wf \in 0..Min(MaxChunks + 1, 1 + plen \div streamBufferSize), sf \in 0..2 :
       Proceed(writeEnter(t, Work(eng, sink, wf, sf, FALSE, FALSE), plen, inPos))

WriteOuter ==
  /\ loop.op = "Write"
  /\ loop.at = "outer"
  /\ Proceed(writeOuterStep(t, loop))

WriteDrain ==
  /\ loop.op = "Write"
  /\ loop.at = "drain"
  /\ Proceed(writeDrainStep(t, loop))

\* Flush is called
FlushEnter ==
  /\ pc = "ready"
  /\ loop.op = "none"
  /\ calls < MaxCalls
  /\ \E sf \in 0..2, ff \in BOOLEAN, ub \in BOOLEAN, rf \in BOOLEAN :
       Proceed(flushEnter(t, [Work(eng, sink, 0, sf, ff, ub) EXCEPT !.rf = rf]))

FlushLoop ==
  /\ loop.op = "Flush"
  /\ loop.at = "flush"
  /\ Proceed(flushStep(t, loop))

NextLoop == ConstructLoop \/ WriteEnter \/ WriteOuter \/ WriteDrain \/ FlushEnter \/ FlushLoop

\* a call that has started goes on running: the engine never blocks and the
\* sink returns
SpecLoop ==
  /\ Init
  /\ [][NextLoop]_vars
  /\ WF_vars(WriteOuter)
  /\ WF_vars(WriteDrain)
  /\ WF_vars(FlushLoop)

\* ------------------------------------------------- the buffer's address
\* A fifth specification in which the buffer handed to Write has an address.
\* Only the address modulo 4, the size of the largest sample, matters.
Addrs == 0..3

\* unsafeBytesAsInt16Slice / unsafeBytesAsFloat32Slice on a buffer of plen
\* bytes at address addr: ok = 1 when &p[0] is converted to a pointer to
\* samples of elemSize bytes, 0 when the view is nil
unsafeView(addr, plen, elemSize) ==
  Ev("view", addr, elemSize, IF plen \div elemSize = 0 THEN 0 ELSE 1)

\* Transformer.Write on a buffer at address addr. Converting a pointer that
\* is not aligned for the sample type breaks the rules of unsafe.Pointer: a
\* build with pointer checks (chk) stops the process there, any other build
\* goes on with the view.
writeAt(tr, m, plen, off, addr, chk) ==
  LET sampleSize == SampleSize(tr.format)
      r == WriteT(tr, m, plen, off)
      v == unsafeView(addr, plen, sampleSize)
  IN  IF tr.format \notin Values \/ ~LenIsMultiple(plen, sampleSize) THEN r
      ELSE IF v.ok = 1 /\ addr % sampleSize # 0 /\ chk
      THEN [m EXCEPT !.kind = "crash", !.log = <<v>>]
      ELSE [r EXCEPT !.log = <<v>> \o @]

ConstructView == ConstructWith({44100}, {<<>>}, {0, MaxLookahead}, {1})

WriteView ==
  /\ pc = "ready"
  /\ calls < MaxCalls
  /\ \E plen \in {0, 2, 3, 4, 8}, addr \in Addrs, chk \in BOOLEAN, wf \in 0..1, sf \in 0..1 :
       LET m == writeAt(t, Work(eng, sink, wf, sf, FALSE, FALSE), plen, inPos, addr, chk)
       IN  /\ pc' = IF m.kind = "crash" THEN "crashed" ELSE pc
           /\ eng' = m.eng
           /\ sink' = m.sink
           /\ log' = m.log
           /\ ret' = Ret("Write", m.kind, m.n, m.err, plen, t.stream = 0)
           /\ inPos' = inPos + (m.n \div SampleSize(t.format))
           /\ clean' = (clean /\ m.kind = "return" /\ m.err = NoErr)
  /\ calls' = calls + 1
  /\ UNCHANGED <<t, call, loop>>

NextView == ConstructView \/ WriteView

SpecView == Init /\ [][NextView]_vars

\* ------------------------------------------------ configured transformers
\* A sixth specification: transformers built with options that set the
\* channel count and the engine's parameters, then used and closed.
FrozenOptLists ==
  {<<>>,
   <<Opt("WithChannels", 2), Opt("WithSpeed", 150)>>,
   <<Opt("WithVolume", 150), Opt("WithQuality", 1)>>}

ConstructFrozen == ConstructWith({44100}, FrozenOptLists, {MaxLookahead}, {1})

NextFrozen == ConstructFrozen \/ Write \/ Flush \/ Close \/ Finalize

SpecFrozen == Init /\ [][NextFrozen]_vars

\* ------------------------------------------------- the stream destroyed
\* A seventh specification in which the holder of the cgosonic.Stream calls
\* DestroyStream on it directly, before or after the transformer's Close and
\* finalizer.
DestroyDirect ==
  /\ pc = "ready"
  /\ calls < MaxCalls
  /\ eng' = DestroyStream(eng)
  /\ log' = <<Ev("destroy", 0, 0, eng.native)>>
  /\ ret' = Ret("DestroyStream", "return", 0, NoErr, 0, t.stream = 0)
  /\ calls' = calls + 1
  /\ UNCHANGED <<pc, t, sink, inPos, clean, call, loop>>

NextDestroy == Construct \/ DestroyDirect \/ Close \/ Finalize

SpecDestroy == Init /\ [][NextDestroy]_vars

\* ------------------------------------------------------------- properties
\* a call has been made in this step
StepTaken == calls' # calls \/ pc' # pc

\* the events of one kind in a log
LogOps(lg, op) == SelectSeq(lg, LAMBDA e : e.op = op)

\* frames the engine accepted in the write calls of a log
RECURSIVE PushedFrames(_)
PushedFrames(lg) ==
  IF lg = <<>> THEN 0
  ELSE (IF Head(lg).op = "write" /\ Head(lg).ok = 1 THEN Head(lg).b ELSE 0)
       + PushedFrames(Tail(lg))

\* the last Write or Flush came back without an error
ReturnedOk(op) == ret.op = op /\ ret.kind = "return" /\ ret.err = NoErr

\* C1: after successful Writes and a successful Flush the sink holds exactly
\* the frames read from the engine, numChannels samples of sampleSize bytes
\* each, in order and without gap or repetition.
C1_SinkHoldsEveryFrame ==
  (ReturnedOk("Flush") /\ clean) =>
    /\ sink.bytes = eng.outNext * t.numChannels * SampleSize(t.format)
    /\ sink.spans = IF eng.outNext = 0 THEN <<>> ELSE << <<0, eng.outNext * t.numChannels>> >>

\* C2: after Close, Write and Flush return an invalid-state failure (not an
\* Invalid, Engine or Sink failure) without crashing and without touching the
\* engine or the sink.
C2_ClosedCallsReportInvalidState ==
  (ret.op \in {"Write", "Flush"} /\ ret.closed) =>
    /\ ret.kind = "return"
    /\ ret.err # NoErr
    /\ ret.err \cap {ErrInvalid, ErrSonicFailed, ErrSonicCreateFailed, ErrWrite, SinkErr} = {}
    /\ log = <<>>

\* C3: Close on a transformer that was not flushed delivers to the sink what
\* Flush would have delivered.
C3_CloseDeliversLikeFlush ==
  [][(StepTaken /\ ret'.op = "Close" /\ t.stream # 0) =>
       sink' = FlushT(t, Work(eng, sink, 0, 0, FALSE, FALSE)).sink]_vars

\* C4: a Write that returns has 0 <= n <= len(p); without an error n = len(p),
\* and n < len(p) comes with an error.
C4_WriteCountContract ==
  (ret.op = "Write" /\ ret.kind = "return") =>
    /\ 0 <= ret.n /\ ret.n <= ret.plen
    /\ (ret.err = NoErr => ret.n = ret.plen)
    /\ (ret.n < ret.plen => ret.err # NoErr)

C4_Witness ==
  /\ ReturnedOk("Write")
  /\ ret.plen > streamBufferSize
  /\ ret.n = ret.plen
  /\ Len(LogOps(log, "write")) > 1

\* C5: the count Write returns is the number of input bytes the engine was
\* given in that call: accepted frames x numChannels x sampleSize.
C5_ConsumedIsWhatWasPushed ==
  (ret.op = "Write" /\ ret.kind = "return") =>
    ret.n = PushedFrames(log) * t.numChannels * SampleSize(t.format)

\* positions in the log of the calls of one kind that failed
FailedAt(op) == {i \in 1..Len(log) : log[i].op = op /\ log[i].ok = 0}

\* byte length of the first k sub-chunks of a buffer of plen bytes
ChunkBytes(plen, k) == Min(plen, k * streamBufferSize)

\* C6: when the sink fails in the drain after sub-chunk k was pushed, Write
\* makes no further call and returns the byte length of sub-chunks 1..k with a
\* Sink-write failure that wraps the sink's error.
C6_SinkFailureStopsWrite ==
  (ret.op = "Write" /\ FailedAt("sink") # {}) =>
    /\ FailedAt("sink") = {Len(log)}
    /\ ret.kind = "return"
    /\ ret.n = ChunkBytes(ret.plen, Len(LogOps(log, "write")))
    /\ ErrWrite \in ret.err /\ SinkErr \in ret.err
    /\ ErrSonicFailed \notin ret.err /\ ErrInvalid \notin ret.err

C6_Witness ==
  /\ ret.op = "Write"
  /\ FailedAt("sink") # {}
  /\ Len(LogOps(log, "write")) = 2
  /\ ret.n = 2 * streamBufferSize
  /\ ret.n < ret.plen

\* C7: when the engine rejects the write of sub-chunk k, Write makes no
\* further call and returns the byte length of sub-chunks 1..k-1 with an
\* Engine failure.
C7_EngineRejectionStopsWrite ==
  (ret.op = "Write" /\ FailedAt("write") # {}) =>
    /\ FailedAt("write") = {Len(log)}
    /\ ret.kind = "return"
    /\ ret.n = ChunkBytes(ret.plen, Len(LogOps(log, "write")) - 1)
    /\ ret.err = {ErrSonicFailed}

C7_Witness ==
  /\ ret.op = "Write"
  /\ FailedAt("write") # {}
  /\ Len(LogOps(log, "write")) = 2
  /\ ret.n = streamBufferSize
  /\ LogOps(log, "sink") # <<>>

\* C8: on an Active transformer a Write whose length is not a multiple of the
\* sample size returns (0, Invalid), calls neither engine nor sink and changes
\* nothing.
C8_MisalignedLengthRejected ==
  [][(StepTaken /\ ret'.op = "Write" /\ t.stream # 0
        /\ ret'.plen % SampleSize(t.format) # 0) =>
       /\ ret'.kind = "return"
       /\ ret'.n = 0
       /\ ret'.err = {ErrInvalid}
       /\ log' = <<>>
       /\ UNCHANGED <<t, eng, sink>>]_vars

C8_Witness ==
  /\ ret.op = "Write"
  /\ ~ret.closed
  /\ t.format = AudioFormatIEEEFloat
  /\ ret.plen = 6
  /\ ret.err = {ErrInvalid}

\* C9: on an Active transformer a Write of an empty buffer returns (0, nil)
\* and calls neither the engine nor the sink.
C9_EmptyWriteIsNoOp ==
  [][(StepTaken /\ ret'.op = "Write" /\ t.stream # 0 /\ ret'.plen = 0) =>
       /\ ret'.kind = "return"
       /\ ret'.n = 0
       /\ ret'.err = NoErr
       /\ log' = <<>>
       /\ UNCHANGED <<t, eng, sink>>]_vars

C9_Witness ==
  /\ ReturnedOk("Write")
  /\ ~ret.closed
  /\ ret.plen = 0
  /\ eng.pending > 0

\* C10: Close (also when the finalizer makes the call) never fails; the first
\* call destroys the engine and drops the scratch buffer, a later one changes
\* nothing, and the engine is destroyed at most once.
C10_CloseIdempotent ==
  [][(StepTaken /\ ret'.op \in {"Close", "Finalize"}) =>
       /\ ret'.kind = "return"
       /\ ret'.err = NoErr
       /\ t'.stream = 0 /\ t'.streamBuffer = 0
       /\ eng'.native = 0
       /\ eng'.destroyed = 1
       /\ (t.stream # 0 => eng.native = 1 /\ eng.destroyed = 0
                           /\ log' = <<Ev("destroy", 0, 0, 1)>>)
       /\ (t.stream = 0 => log' = <<>> /\ UNCHANGED <<t, eng, sink>>)]_vars

C10_Witness ==
  /\ ret.op \in {"Close", "Finalize"}
  /\ ret.closed
  /\ eng.destroyed = 1

\* the events of a log that are configure calls on the engine
IsConfigure(e) == e.op \in {"SetVolume", "SetSpeed", "SetPitch", "SetRate", "SetQuality"}

\* NewTransformer has been called and gave back (nil, err)
ConstructionFailed == pc = "failed" /\ ret.op = "NewTransformer" /\ ret.err # NoErr

\* C11: whenever NewTransformer returns a failure, no engine created by that
\* call is alive: either none was created or CreateStream itself failed.
C11_NoEngineLeftOnFailure ==
  pc = "failed" =>
    /\ ret.err # NoErr
    /\ t = NoTransformer
    /\ eng.native = 0
    /\ eng.created = eng.destroyed
    /\ \A i \in 1..Len(log) : log[i].op = "create" => log[i].ok = 0

C11_Witness ==
  /\ ConstructionFailed
  /\ call.opts # <<>>
  /\ \E i \in 1..Len(log) : log[i].op = "create" /\ log[i].ok = 0

\* the arguments of the call are not acceptable: no sink, a sample rate
\* outside [MIN_SAMPLE_RATE, MAX_SAMPLE_RATE], or an unknown encoding
ArgumentsInvalid ==
  \/ call.w = 0
  \/ call.sampleRate \notin MIN_SAMPLE_RATE..MAX_SAMPLE_RATE
  \/ call.format \notin {AudioFormatPCM, AudioFormatIEEEFloat}

\* C12: NewTransformer returns an Invalid failure when the sink is nil, the
\* sample rate is outside [MIN_SAMPLE_RATE, MAX_SAMPLE_RATE] or the encoding is
\* unsupported, and then no option has run, no engine was created and the
\* sink was not written; with acceptable arguments (the two bounds of the
\* sample rate included) it does not report Invalid.
C12_InvalidArgumentsRejectedFirst ==
  ret.op = "NewTransformer" =>
    /\ ArgumentsInvalid =>
         /\ pc = "failed"
         /\ ret.err = {ErrInvalid}
         /\ t = NoTransformer
         /\ log = <<>>
         /\ eng = NoEngine
         /\ sink = NoSink
    /\ ~ArgumentsInvalid => ErrInvalid \notin ret.err

C12_Witness ==
  /\ ConstructionFailed
  /\ call.w = 1
  /\ call.sampleRate = MAX_SAMPLE_RATE + 1
  /\ call.format = AudioFormatPCM
  /\ Len(call.opts) = MaxOpts

\* the positions of the options of the call that report an error
FailingOptions ==
  {k \in 1..Len(call.opts) : call.opts[k].kind = "Custom" /\ call.opts[k].v # 0}

\* the first of them
FirstFailing == CHOOSE k \in FailingOptions : \A j \in FailingOptions : k <= j

\* the error a caller-written option reports
ErrorOf(o) == IF o.v = 1 THEN ErrOption ELSE ErrOption2

\* NewTransformer was called with acceptable arguments and an option failed
OptionFailed == ret.op = "NewTransformer" /\ ~ArgumentsInvalid /\ FailingOptions # {}

\* C13 as stated: when an option reports a failure, construction fails with
\* a failure of the Invalid kind.
C13_OptionFailureIsInvalid ==
  OptionFailed => (pc = "failed" /\ ErrInvalid \in ret.err)

\* C13 amended: when an option reports a failure, construction fails with
\* exactly that option's error, unwrapped; it is of the Invalid kind only if
\* the option's own error is.
C13_OptionFailureIsOptionsError ==
  OptionFailed =>
    /\ pc = "failed"
    /\ ret.err = {ErrorOf(call.opts[FirstFailing])}

C13_Witness ==
  /\ OptionFailed
  /\ ConstructionFailed
  /\ ret.err = {ErrOption2}

\* C14: when the k-th option reports an error, NewTransformer returns that
\* option's error (or one wrapping it) and no transformer; the options after
\* the k-th are not run and no engine is created.
C14_FirstFailingOptionEndsConstruction ==
  OptionFailed =>
    /\ pc = "failed"
    /\ ErrorOf(call.opts[FirstFailing]) \in ret.err
    /\ t = NoTransformer
    /\ log = [i \in 1..FirstFailing |->
                Ev("option", i, 0, IF i = FirstFailing THEN 0 ELSE 1)]
    /\ eng = NoEngine

C14_Witness ==
  /\ OptionFailed
  /\ ConstructionFailed
  /\ FirstFailing = 1
  /\ Len(call.opts) > 1
  /\ call.opts[2].kind = "WithChannels"

\* the positions of the options of one kind in the call
OptionsOf(kind) == {k \in 1..Len(call.opts) : call.opts[k].kind = kind}

\* the argument of the last option of that kind
LastOf(kind) ==
  call.opts[CHOOSE k \in OptionsOf(kind) : \A j \in OptionsOf(kind) : j <= k].v

\* NewTransformer has returned a transformer
Constructed == pc \in {"ready", "collected"}

\* v is what a setter is said to store for the argument x: x inside
\* [min, max], min below, max above, and so a value of [min, max] in every case
IsClampOf(v, x, min, max) ==
  /\ x \in min..max => v = x
  /\ Less(x, min) => v = min
  /\ Less(max, x) => v = max
  /\ v \in min..max

\* a field set by the options of one kind holds the clamped argument
StoresClamped(field, kind, min, max) ==
  OptionsOf(kind) # {} =>
    /\ Len(field) = 1
    /\ IsClampOf(field[1], LastOf(kind), min, max)

\* C15: WithVolume, WithSpeed, WithPitch and WithRate never report an error
\* and store x when x lies in the field's range, min when x < min and max when
\* x > max; hence every stored value lies within its documented range.
C15_SettersClampIntoRange ==
  /\ (ret.op = "NewTransformer" /\ ~ArgumentsInvalid /\ FailingOptions = {} /\ call.createOk)
       => pc = "ready"
  /\ Constructed =>
       /\ StoresClamped(t.volume, "WithVolume", MIN_VOLUME, MAX_VOLUME)
       /\ StoresClamped(t.speed, "WithSpeed", MIN_SPEED, MAX_SPEED)
       /\ StoresClamped(t.pitch, "WithPitch", MIN_PITCH_SETTING, MAX_PITCH_SETTING)
       /\ StoresClamped(t.rate, "WithRate", MIN_RATE, MAX_RATE)

\* the channel count the call asks for: 1 without WithChannels, else the
\* argument of the last WithChannels brought into [MIN_CHANNELS, MAX_CHANNELS]
ResolvedChannels ==
  IF OptionsOf("WithChannels") = {} THEN 1
  ELSE LET c == LastOf("WithChannels")
       IN  IF c < MIN_CHANNELS THEN MIN_CHANNELS
           ELSE IF c > MAX_CHANNELS THEN MAX_CHANNELS ELSE c

\* C16: the engine is created only after every option has been applied, and
\* with the resolved channel count: 1 when no option sets it, else the value
\* of the last WithChannels clamped to [MIN_CHANNELS, MAX_CHANNELS].
C16_EngineCreatedAfterOptions ==
  ret.op = "NewTransformer" =>
    /\ \A i \in 1..Len(log) :
         log[i].op = "create" =>
           /\ i = Len(call.opts) + 1
           /\ \A j \in 1..Len(call.opts) : log[j] = Ev("option", j, 0, 1)
           /\ log[i].a = call.sampleRate
           /\ log[i].b = ResolvedChannels
    /\ pc = "ready" =>
         /\ Len(LogOps(log, "create")) = 1
         /\ eng.native = 1
         /\ eng.numChannels = ResolvedChannels
         /\ t.numChannels = ResolvedChannels

C16_Witness ==
  /\ ret.op = "NewTransformer"
  /\ pc = "ready"
  /\ Len(call.opts) > 1
  /\ call.opts[1] = Opt("WithChannels", 2)
  /\ call.opts[2] = Opt("WithChannels", MAX_CHANNELS + 1)
  /\ eng.numChannels = MAX_CHANNELS

\* the configure calls: their place in the fixed order, the option that sets
\* the field, and the field of the transformer
Setters == {"SetVolume", "SetSpeed", "SetPitch", "SetRate", "SetQuality"}

Rank(op) ==
  CASE op = "SetVolume" -> 1 [] op = "SetSpeed" -> 2 [] op = "SetPitch" -> 3
    [] op = "SetRate" -> 4 [] op = "SetQuality" -> 5

OptionFor(op) ==
  CASE op = "SetVolume" -> "WithVolume" [] op = "SetSpeed" -> "WithSpeed"
    [] op = "SetPitch" -> "WithPitch" [] op = "SetRate" -> "WithRate"
    [] op = "SetQuality" -> "WithQuality"

FieldFor(op) ==
  CASE op = "SetVolume" -> t.volume [] op = "SetSpeed" -> t.speed
    [] op = "SetPitch" -> t.pitch [] op = "SetRate" -> t.rate
    [] op = "SetQuality" -> t.quality

\* C17: the engine is configured only after it was created, only for the
\* fields an option has set, with the stored value, and in the fixed order
\* volume, speed, pitch, rate, quality.
C17_ConfiguredAfterCreateInOrder ==
  ret.op = "NewTransformer" =>
    /\ \A i \in 1..Len(log) :
         IsConfigure(log[i]) =>
           /\ pc = "ready"
           /\ \E j \in 1..(i - 1) : log[j].op = "create" /\ log[j].ok = 1
           /\ OptionsOf(OptionFor(log[i].op)) # {}
           /\ FieldFor(log[i].op) = <<log[i].a>>
           /\ \A j \in (i + 1)..Len(log) :
                IsConfigure(log[j]) => Rank(log[i].op) < Rank(log[j].op)
    /\ pc = "ready" =>
         \A op \in Setters :
           /\ OptionsOf(OptionFor(op)) = {} => FieldFor(op) = <<>>
           /\ OptionsOf(OptionFor(op)) # {} => Len(LogOps(log, op)) = 1

C17_Witness ==
  /\ ret.op = "NewTransformer"
  /\ pc = "ready"
  /\ Len(call.opts) > 1
  /\ call.opts[1].kind = "WithSpeed"
  /\ call.opts[2].kind = "WithVolume"
  /\ Len(LogOps(log, "SetVolume")) = 1
  /\ Len(LogOps(log, "SetSpeed")) = 1

\* the field holds the clamped argument of the last option of its kind, and
\* that value was pushed to the engine in one call
LastWins(field, kind, op, min, max) ==
  OptionsOf(kind) # {} =>
    /\ Len(field) = 1
    /\ IsClampOf(field[1], LastOf(kind), min, max)
    /\ LogOps(log, op) = <<Ev(op, field[1], 0, 1)>>

\* C18: when several options set the same field, the value stored and pushed
\* to the engine is the clamped value of the last of them, and the engine
\* gets exactly one configure call for that field.
C18_LastOptionWins ==
  (ret.op = "NewTransformer" /\ pc = "ready") =>
    /\ LastWins(t.volume, "WithVolume", "SetVolume", MIN_VOLUME, MAX_VOLUME)
    /\ LastWins(t.speed, "WithSpeed", "SetSpeed", MIN_SPEED, MAX_SPEED)
    /\ LastWins(t.pitch, "WithPitch", "SetPitch", MIN_PITCH_SETTING, MAX_PITCH_SETTING)
    /\ LastWins(t.rate, "WithRate", "SetRate", MIN_RATE, MAX_RATE)
    /\ LastWins(t.quality, "WithQuality", "SetQuality", 1, 1)

\* the last call was a Flush on an open transformer whose caller has not
\* got rid of a single sample so far: no Write yet, or only empty and
\* rejected ones
FlushedWithoutInput == ret.op = "Flush" /\ ~ret.closed /\ inPos = 0

\* C19 as stated: Flush on an open transformer that has received no input
\* performs zero sink writes and reports no error.
C19_FlushWithoutInputIsSilent ==
  FlushedWithoutInput =>
    /\ ret.kind = "return"
    /\ LogOps(log, "sink") = <<>>
    /\ sink = NoSink
    /\ ret.err = NoErr

\* C19 amended: Flush on an open transformer that has received no input
\* performs zero sink writes; it reports no error unless the engine's flush
\* itself fails, and then an Engine failure.
C19_FlushWithoutInputWritesNothing ==
  FlushedWithoutInput =>
    /\ ret.kind = "return"
    /\ LogOps(log, "sink") = <<>>
    /\ sink = NoSink
    /\ eng.inSpans = <<>>
    /\ FailedAt("flush") = {} => ret.err = NoErr
    /\ FailedAt("flush") # {} => ret.err = {ErrSonicFailed}

C19_Witness ==
  /\ FlushedWithoutInput
  /\ ReturnedOk("Flush")
  /\ calls = 2
  /\ eng.lookahead > 0
  /\ LogOps(log, "flush") = <<Ev("flush", 0, 0, 1)>>

\* C20: Flush makes no write call on the engine, and when the engine's flush
\* fails Flush returns an Engine failure without reading from the engine or
\* writing to the sink.
C20_FlushPushesNothing ==
  [][(StepTaken /\ ret'.op = "Flush") =>
       /\ \A i \in 1..Len(log') : log'[i].op # "write"
       /\ eng'.inSpans = eng.inSpans
       /\ (\E i \in 1..Len(log') : log'[i].op = "flush" /\ log'[i].ok = 0) =>
            /\ ret'.kind = "return"
            /\ ret'.err = {ErrSonicFailed}
            /\ log' = <<Ev("flush", 0, 0, 0)>>
            /\ UNCHANGED <<t, eng, sink>>]_vars

C20_Witness ==
  /\ ret.op = "Flush"
  /\ ret.err = {ErrSonicFailed}
  /\ log = <<Ev("flush", 0, 0, 0)>>
  /\ eng.pending > 0

\* frames the caller has written so far and frames the sink holds
FramesIn == inPos \div t.numChannels
FramesAtSink == sink.bytes \div (t.numChannels * SampleSize(t.format))

\* C21: with speed, pitch, rate and volume left at 1 and quality off, n input
\* frames written in any split across Write calls and a Flush deliver exactly
\* n output frames to the sink.
C21_IdentityDeliversEveryFrame ==
  (ReturnedOk("Flush") /\ clean /\ inPos % t.numChannels = 0) =>
    /\ FramesAtSink = FramesIn
    /\ sink.bytes = FramesIn * t.numChannels * SampleSize(t.format)

\* the lifecycle state of the transformer
Created == pc = "start"
Active == pc = "ready" /\ t.stream # 0
Closed == pc \in {"ready", "collected"} /\ t.stream = 0

\* C22: the lifecycle is Created, Active, Closed with Closed terminal: only
\* Close (a caller's or the finalizer's) leaves Active; a Write or Flush that
\* returns a failure leaves the transformer Active with its engine handle
\* intact, so both may be called again; nothing brings a Closed transformer
\* back to Active, and no second engine is ever created.
C22_Lifecycle ==
  [][StepTaken =>
       /\ Active => eng.native = 1
       /\ (Active /\ ~Active') =>
            \/ ret'.op \in {"Close", "Finalize"} /\ Closed' /\ eng'.native = 0
            \/ ret'.kind = "crash"
       /\ (Active /\ ret'.op \in {"Write", "Flush"} /\ ret'.kind = "return") =>
            /\ Active'
            /\ t' = t
            /\ eng'.native = 1
            /\ pc' = "ready"
       /\ Closed => Closed'
       /\ ~Created => eng'.created = eng.created
       /\ eng'.created <= 1]_vars

\* a Write that succeeds on a transformer whose earlier call has failed
C22_Witness ==
  /\ Active
  /\ calls = 2
  /\ ~clean
  /\ ReturnedOk("Write")
  /\ eng.inSpans # <<>>

\* C24: for every channel count, every sample of a buffer accepted by Write
\* is handed to the engine exactly once and in order: each sub-chunk pushes
\* frames * numChannels = its length in samples, so nothing is dropped at a
\* sub-chunk boundary and the next sub-chunk starts on a frame boundary.
C24_EverySampleHandedOnce ==
  /\ (ret.op = "Write" /\ ret.kind = "return") =>
       \A i \in 1..Len(log) :
         log[i].op = "write" => log[i].b * t.numChannels = log[i].a
  /\ (ReturnedOk("Write") /\ clean) =>
       eng.inSpans = IF inPos = 0 THEN <<>> ELSE << <<0, inPos>> >>

\* C25: in every read Write or Flush makes on the engine the buffer handed
\* over holds at least maxFrames * numChannels samples, for every channel
\* count, so the engine never writes past its end.
C25_ReadBufferHoldsEveryFrame ==
  (ret.op \in {"Write", "Flush"}) =>
    \A i \in 1..Len(log) :
      log[i].op = "read" => log[i].a >= log[i].b * t.numChannels

\* the most samples one engine write may carry: 2048 of 16 bits, 1024 floats
MaxSubChunk == IF t.format = AudioFormatPCM THEN 2048 ELSE 1024

\* C26: every engine write call of Write carries at least 1 and at most
\* streamBufferSize / sampleSize samples (2048 for 16-bit PCM, 1024 for
\* float), whatever the length of the buffer, and every sub-chunk but the
\* last carries exactly that maximum.
C26_SubChunksBounded ==
  (ret.op = "Write" /\ ret.kind = "return") =>
    LET w == LogOps(log, "write")
    IN  \A i \in 1..Len(w) :
          /\ w[i].a >= 1
          /\ w[i].a <= MaxSubChunk
          /\ i < Len(w) => w[i].a = MaxSubChunk

C26_Witness ==
  /\ ReturnedOk("Write")
  /\ t.format = AudioFormatIEEEFloat
  /\ ret.plen = streamBufferSize + 4
  /\ LogOps(log, "write") = <<Ev("write", 1024, 1024, 1), Ev("write", 1, 1, 1)>>

\* C27: whenever Write of a non-empty buffer or Flush returns without error,
\* the engine has no output frame left to read, for every channel count.
C27_DrainedAfterSuccess ==
  (ReturnedOk("Flush") \/ (ReturnedOk("Write") /\ ret.plen > 0)) =>
    /\ SamplesAvailable(eng) = 0
    /\ ReadCount(eng, 1) = 0

C27_Witness ==
  /\ ReturnedOk("Flush")
  /\ t.numChannels = MAX_CHANNELS
  /\ eng.outNext > 0
  /\ Len(LogOps(log, "read")) > 0
  /\ SamplesAvailable(eng) = 0

\* the calls a log holds that work on the native stream
EngineOps == {"write", "read", "flush"} \cup Setters

\* C30: over any sequence of Write, Flush and Close calls no engine
\* operation (write, read, flush, available, configure) is invoked on a
\* stream that has been destroyed, and no stream is destroyed twice.
C30_NoUseAfterDestroy ==
  [][StepTaken =>
       /\ (ret'.op \in {"Write", "Flush"} /\ \E i \in 1..Len(log') : log'[i].op \in EngineOps)
            => (eng.native = 1 /\ eng.destroyed = 0 /\ t.stream # 0)
       /\ (ret'.op = "NewTransformer" /\ \E i \in 1..Len(log') : log'[i].op \in EngineOps)
            => (eng'.native = 1 /\ eng'.destroyed = 0)
       /\ (\E i \in 1..Len(log') : log'[i].op = "destroy")
            => (eng.native = 1 /\ eng.destroyed = 0 /\ log' = <<Ev("destroy", 0, 0, 1)>>)
       /\ eng'.destroyed <= 1]_vars

\* a Write or Flush attempted after Close
C30_Witness ==
  /\ ret.op \in {"Write", "Flush"}
  /\ ret.closed
  /\ eng.destroyed = 1
  /\ eng.native = 0
  /\ log = <<>>

\* the failure kinds an error matches (errors.Is)
IsInvalidKind(err) == ErrInvalid \in err
IsEngineKind(err) == ErrSonicFailed \in err \/ ErrSonicCreateFailed \in err
IsSinkKind(err) == ErrWrite \in err

\* C29: a failure returned by Write or Flush never matches both the engine
\* kind and the sink kind, nor the Invalid kind together with either,
\* whatever error the sink returned, also when the sink is a Transformer.
C29_FailureKindsDisjoint ==
  (ret.op \in {"Write", "Flush"} /\ ret.kind = "return") =>
    /\ ~(IsEngineKind(ret.err) /\ IsSinkKind(ret.err))
    /\ ~(IsInvalidKind(ret.err) /\ IsEngineKind(ret.err))
    /\ ~(IsInvalidKind(ret.err) /\ IsSinkKind(ret.err))

\* a call is under way
Busy == loop.op # "none"

\* the working state a call starts from, with the choices made for the call
\* under way
Entry == [Work(eng, sink, loop.m.wf, loop.m.sf, loop.m.ff, loop.m.ub) EXCEPT !.rf = loop.m.rf]

\* the loops followed step by step end where Write and Flush taken as a whole
\* end: same engine, same sink, same calls, same results
LoopsAgree ==
  [][(Busy /\ ~Busy') =>
       LET m == IF loop.op = "Write" THEN WriteT(t, Entry, loop.plen, inPos)
                ELSE FlushT(t, Entry)
       IN  /\ eng' = m.eng
           /\ sink' = m.sink
           /\ log' = m.log
           /\ ret'.n = m.n
           /\ ret'.err = m.err
           /\ ret'.kind = m.kind]_vars

\* C28: a Write or Flush that has started returns. On the way, the input left
\* to push shrinks each time the outer loop of Write comes round, every pass
\* of a drain loop that stays in the loop takes at least one frame out of the
\* engine, and a read of Flush that returns no frame while the engine
\* announces some ends Flush with ErrSonicFailed.
C28_WriteAndFlushTerminate ==
  /\ [][/\ (loop.at = "drain" /\ loop'.at = "outer") => loop'.rem < loop.rem
        /\ (loop.at \in {"drain", "flush"} /\ loop'.at = loop.at) =>
             SamplesAvailable(loop'.m.eng) < SamplesAvailable(loop.m.eng)
        /\ (loop.at = "flush" /\ loop.m.rf /\ SamplesAvailable(loop.m.eng) > 0) =>
             (~Busy' /\ ret'.op = "Flush" /\ ret'.err = {ErrSonicFailed})]_vars
  /\ Busy ~> ~Busy

\* Flush has ended on a read that returned nothing from an engine announcing
\* frames, after a Write of more than one sub-chunk
C28_Witness ==
  /\ ret.op = "Flush"
  /\ ret.err = {ErrSonicFailed}
  /\ Len(log) > 0
  /\ log[Len(log)].op = "read"
  /\ log[Len(log)].ok = 0
  /\ log[Len(log)].a > 0
  /\ inPos > StreamBufferSampleSize(SampleSize(t.format))
\* C31: Write views the caller's buffer as typed samples only when the
\* buffer's address is aligned for the sample type: no pointer to the first
\* byte of a buffer that is not aligned is ever converted.
C31_AlignmentVerified ==
  (ret.op = "Write") =>
    \A i \in 1..Len(log) :
      (log[i].op = "view" /\ log[i].ok = 1) => log[i].a % log[i].b = 0
Config(tr) ==
  <<tr.sampleRate, tr.numChannels, tr.format, tr.volume, tr.speed, tr.pitch, tr.rate,
    tr.quality>>

\* C34: once NewTransformer has succeeded, no Write, Flush or Close (nor the
\* finalizer) changes the sample rate, the channel count, the encoding or the
\* stored volume, speed, pitch, rate and quality, none makes a configure call
\* on the engine, and the transformer's channel count and sample rate are
\* those the engine was created with.
C34_ConfigurationFrozen ==
  [][StepTaken =>
       /\ (ret'.op \in {"Write", "Flush", "Close", "Finalize"}) =>
            /\ Config(t') = Config(t)
            /\ \A i \in 1..Len(log') : ~IsConfigure(log'[i])
            /\ eng'.numChannels = eng.numChannels
            /\ eng'.sampleRate = eng.sampleRate
       /\ (pc' \in {"ready", "collected", "crashed"}) =>
            /\ t'.numChannels = eng'.numChannels
            /\ t'.sampleRate = eng'.sampleRate]_vars

\* a transformer built for two channels at speed 1.5 after a Write and a
\* Flush that both reached the engine
C34_Witness ==
  /\ pc = "ready"
  /\ calls = 2
  /\ ret.op = "Flush"
  /\ \E i \in 1..Len(log) : log[i].op = "flush"
  /\ eng.inSpans # <<>>
  /\ t.numChannels = 2
  /\ eng.numChannels = 2
  /\ t.speed = <<150>>
\* C35: a transformer that NewTransformer has returned holds one of the two
\* supported encodings in every state it goes through, and no Write or Flush
\* on it returns an error wrapping ErrInternal.
C35_EncodingAlwaysSupported ==
  /\ (pc \in {"ready", "collected", "crashed"}) => t.format \in Values
  /\ (ret.op \in {"Write", "Flush"}) => ErrInternal \notin ret.err

\* a Flush on a float32 transformer that has returned a failure
C35_Witness ==
  /\ pc = "ready"
  /\ t.format = AudioFormatIEEEFloat
  /\ ret.op = "Flush"
  /\ ret.kind = "return"
  /\ ret.err # NoErr
  /\ calls = 2
\* the calls that end in Stream.DestroyStream
Destroyers == {"DestroyStream", "Close", "Finalize"}

\* C36: DestroyStream is idempotent. The first one releases the native
\* stream and clears the handle; every later one on the same Stream, made
\* directly, by Close or by the finalizer, changes nothing, so the native
\* stream is released once at most.
C36_DestroyIdempotent ==
  [][(StepTaken /\ ret'.op \in Destroyers) =>
       /\ (eng.native = 1 /\ Len(log') > 0) =>
            /\ eng'.native = 0
            /\ eng'.destroyed = eng.destroyed + 1
       /\ (eng.native = 0) => eng' = eng
       /\ eng'.destroyed <= 1]_vars

\* Close has run DestroyStream on a stream that was destroyed directly before
C36_Witness ==
  /\ ret.op = "Close"
  /\ ~ret.closed
  /\ log = <<Ev("destroy", 0, 0, 0)>>
  /\ eng.native = 0
  /\ eng.destroyed = 1
  /\ t.stream = 0
\* C37: when NewTransformer has returned a transformer, its scratch buffer is
\* streamBufferSize * sampleSize bytes long (streamBufferSize * 2 for 16-bit
\* integers, streamBufferSize * 4 for floats) and its engine handle is not
\* nil.
C37_ScratchBufferLength ==
  (pc = "ready" /\ ret.op = "NewTransformer") =>
    /\ t.streamBuffer = streamBufferSize * SampleSize(t.format)
    /\ t.stream # 0
    /\ eng.native = 1
\* the frames of the batch a log's failed sink write was handed
LostFrames(lg) ==
  LET failed == SelectSeq(lg, LAMBDA e : e.op = "sink" /\ e.ok = 0)
  IN  IF failed = <<>> THEN 0 ELSE failed[1].b

\* C33: a Write or Flush that ends in a sink failure has delivered, in order,
\* every frame it read from the engine but the one batch whose write failed,
\* and the frames the engine still held stay in the engine; the next
\* successful Write or Flush delivers, in order and once, every frame it
\* reads, and a successful Flush reads all the engine held when the sink
\* failed.
C33_SinkFailureLosesOneBatch ==
  [][(StepTaken /\ ret'.op \in {"Write", "Flush"} /\ ret'.kind = "return") =>
       /\ IsSinkKind(ret'.err) =>
            /\ LostFrames(log') > 0
            /\ sink'.spans = AppendSpan(sink.spans, eng.outNext * t.numChannels,
                                        (eng'.outNext - LostFrames(log')) * t.numChannels)
            /\ eng'.outNext + eng'.avail + eng'.pending
                 = eng.outNext + eng.avail + eng.pending + PushedFrames(log')
       /\ (IsSinkKind(ret.err) /\ ret.op \in {"Write", "Flush"} /\ ret'.err = NoErr) =>
            /\ sink'.spans = AppendSpan(sink.spans, eng.outNext * t.numChannels,
                                        eng'.outNext * t.numChannels)
            /\ (ret'.op = "Flush") =>
                 eng'.outNext = eng.outNext + eng.avail + eng.pending]_vars
====
